---- MODULE Spec2Model ----
(***************************************************************************)
(* Model of src/fragment_assembler.py: class FragmentAssembler.            *)
(*                                                                         *)
(* A fragment (a Python str) is a sequence of one-character strings.       *)
(* Python indices are 0-based, TLA+ sequences are 1-based: the fragment    *)
(* index i of the code is i + 1 here, so range(self.n) is 1..n.            *)
(* A Python dict is a record [keys, val]: keys is the sequence of keys in  *)
(* insertion order, val the function from the keys to their values.        *)
(***************************************************************************)
EXTENDS Integers, Sequences, FiniteSets, TLC

VARIABLES fragments, n, overlap_matrix,
          graph_status, graph_result,
          hp_status, hp_result, hp_perm,
          ss_status, ss_result, ss_perm

vars == <<fragments, n, overlap_matrix, graph_status, graph_result,
          hp_status, hp_result, hp_perm, ss_status, ss_result, ss_perm>>

\* ---------------------------------------------------------------- bounds
MaxN == 2
MaxLen == 3
Alphabet == {"A", "C"}

\* ------------------------------------------------------- Python helpers
\* None where a str is expected: a value no fragment over Alphabet is equal to
None == <<"None">>
\* None where a list or tuple is expected. max_path is read only by
\* "if max_path", which takes None and the empty list alike.
NoList == <<>>

Min(a, b) == IF a < b THEN a ELSE b

\* s[-i:] for 1 <= i <= len(s)
Suffix(s, i) == SubSeq(s, Len(s) - i + 1, Len(s))
\* s[:i]
Prefix(s, i) == SubSeq(s, 1, i)
\* s[k:]
DropFirst(s, k) == SubSeq(s, k + 1, Len(s))

SeqToSet(s) == {s[i] : i \in 1..Len(s)}

EmptyDict == [keys |-> <<>>, val |-> <<>>]

\* d[k] = v : a new key is appended to the insertion order, an existing key
\* keeps its place and has its value overwritten
DictSet(d, k, v) ==
  [keys |-> IF k \in SeqToSet(d.keys) THEN d.keys ELSE Append(d.keys, k),
   val  |-> [x \in SeqToSet(d.keys) \cup {k} |-> IF x = k THEN v ELSE d.val[x]]]

DictKeys(d) == SeqToSet(d.keys)

\* ------------------------------------------------- _calculate_overlap
\* the mutant stops at the first match instead of scanning on
RECURSIVE OverlapScanFirst(_, _, _, _)
OverlapScanFirst(fragment1, fragment2, i, max_overlap) ==
  IF i > Min(Len(fragment1), Len(fragment2)) THEN max_overlap
  ELSE IF Suffix(fragment1, i) = Prefix(fragment2, i) THEN i
  ELSE OverlapScanFirst(fragment1, fragment2, i + 1, max_overlap)

\* for i in range(1, min(len1, len2) + 1): if f1[-i:] == f2[:i]: max_overlap = i
RECURSIVE OverlapScan(_, _, _, _)
OverlapScan(fragment1, fragment2, i, max_overlap) ==
  IF i > Min(Len(fragment1), Len(fragment2)) THEN max_overlap
  ELSE OverlapScan(fragment1, fragment2, i + 1,
                   IF Suffix(fragment1, i) = Prefix(fragment2, i)
                   THEN i ELSE max_overlap)

_calculate_overlap(fragment1, fragment2) == OverlapScan(fragment1, fragment2, 1, 0)

\* ------------------------------------------------ _build_overlap_matrix
\* the mutant fills the diagonal as well
build_overlap_matrix_full(frags) ==
  [i \in 1..Len(frags) |-> [j \in 1..Len(frags) |->
      _calculate_overlap(frags[i], frags[j])]]

\* np.zeros((n, n)), then entry (i, j) set for i != j
_build_overlap_matrix(frags) ==
  [i \in 1..Len(frags) |-> [j \in 1..Len(frags) |->
      IF i # j THEN _calculate_overlap(frags[i], frags[j]) ELSE 0]]

\* ------------------------------------------- itertools.permutations
RemoveAt(s, i) == SubSeq(s, 1, i - 1) \o SubSeq(s, i + 1, Len(s))

RECURSIVE Flatten(_)
Flatten(ss) == IF Len(ss) = 0 THEN <<>> ELSE Head(ss) \o Flatten(Tail(ss))

\* the tuples of all elements of pool, emitted in the order of the positions
\* of pool (lexicographic when pool is sorted); one empty tuple for an empty pool
RECURSIVE permutations(_)
permutations(pool) ==
  IF Len(pool) = 0 THEN << <<>> >>
  ELSE Flatten([i \in 1..Len(pool) |->
         LET rest == permutations(RemoveAt(pool, i))
         IN [k \in 1..Len(rest) |-> <<pool[i]>> \o rest[k]]])

\* range(self.n), shifted to 1-based indices
range_n == [i \in 1..n |-> i]

\* ------------------------------------------------------------ Init
Strings == UNION {[1..k -> Alphabet] : k \in 0..MaxLen}
FragmentLists == UNION {[1..k -> Strings] : k \in 0..MaxN}

Init ==
  /\ fragments \in FragmentLists
  /\ n = Len(fragments)
  /\ overlap_matrix = _build_overlap_matrix(fragments)
  /\ graph_status = "idle" /\ graph_result = EmptyDict
  /\ hp_status = "idle" /\ hp_result = EmptyDict /\ hp_perm = NoList
  /\ ss_status = "idle" /\ ss_result = None /\ ss_perm = NoList

\* ------------------------------------------------------------ graph
\* inner loop: if self.overlap_matrix[i][j] > 0: neighbors[fragment2] = ...
RECURSIVE neighbors_loop(_, _, _)
neighbors_loop(i, j, neighbors) ==
  IF j > n THEN neighbors
  ELSE neighbors_loop(i, j + 1,
         IF overlap_matrix[i][j] > 0
         THEN DictSet(neighbors, fragments[j], overlap_matrix[i][j])
         ELSE neighbors)

\* outer loop: graph[fragment1] = neighbors
RECURSIVE graph_loop(_, _)
graph_loop(i, graph) ==
  IF i > n THEN graph
  ELSE graph_loop(i + 1, DictSet(graph, fragments[i], neighbors_loop(i, 1, EmptyDict)))

Graph ==
  /\ graph_status' = "returned"
  /\ graph_result' = graph_loop(1, EmptyDict)
  /\ UNCHANGED <<fragments, n, overlap_matrix, hp_status, hp_result, hp_perm,
                 ss_status, ss_result, ss_perm>>

\* ------------------------------------------------- hamiltonian_path
\* the mutant stops one pair short: range(1, self.n - 1)
RECURSIVE hp_total_overlap_short(_, _)
hp_total_overlap_short(perm, i) ==
  IF i > n - 1 THEN 0
  ELSE overlap_matrix[perm[i - 1]][perm[i]] + hp_total_overlap_short(perm, i + 1)

\* total_overlap after the loop "for i in range(1, self.n)" over perm
RECURSIVE hp_total_overlap(_, _)
hp_total_overlap(perm, i) ==
  IF i > n THEN 0
  ELSE overlap_matrix[perm[i - 1]][perm[i]] + hp_total_overlap(perm, i + 1)

\* path after the loop and the final append: the contents of perm's fragments
hp_path(perm) == [i \in 1..Len(perm) |-> fragments[perm[i]]]

\* the mutant lets a tie replace the best
hp_improves_or_ties(total_overlap, max_overlap) == total_overlap >= max_overlap

\* if total_overlap > max_overlap
hp_improves(total_overlap, max_overlap) == total_overlap > max_overlap

\* one iteration of "for perm in itertools.permutations(range(self.n))";
\* perm[-1] of an empty perm raises IndexError and ends the call.
\* acc.perm is the perm of the iteration that last assigned max_path.
hp_iteration(acc, perm) ==
  IF acc.raised THEN acc
  ELSE IF Len(perm) = 0 THEN [acc EXCEPT !.raised = TRUE]
  ELSE IF hp_improves(hp_total_overlap(perm, 2), acc.max_overlap)
       THEN [acc EXCEPT !.max_overlap = hp_total_overlap(perm, 2),
                        !.max_path = hp_path(perm),
                        !.perm = perm]
       ELSE acc

RECURSIVE hp_search(_, _, _)
hp_search(perms, k, acc) ==
  IF k > Len(perms) THEN acc
  ELSE hp_search(perms, k + 1, hp_iteration(acc, perms[k]))

\* {max_path[i]: max_path[i + 1] if i + 1 < len(max_path) else None for i ...}
RECURSIVE successor_dict(_, _, _)
successor_dict(max_path, i, d) ==
  IF i > Len(max_path) THEN d
  ELSE successor_dict(max_path, i + 1,
         DictSet(d, max_path[i],
                 IF i + 1 <= Len(max_path) THEN max_path[i + 1] ELSE None))

HamiltonianPath ==
  LET r == hp_search(permutations(range_n), 1,
                     [max_path |-> NoList, max_overlap |-> -1, perm |-> NoList,
                      raised |-> FALSE])
  IN /\ IF r.raised
        THEN /\ hp_status' = "IndexError"
             /\ hp_result' = EmptyDict
             /\ hp_perm' = NoList
        ELSE /\ hp_status' = "returned"
             /\ hp_result' = IF Len(r.max_path) > 0
                             THEN successor_dict(r.max_path, 1, EmptyDict)
                             ELSE EmptyDict
             /\ hp_perm' = r.perm
     /\ UNCHANGED <<fragments, n, overlap_matrix, graph_status, graph_result,
                    ss_status, ss_result, ss_perm>>

\* ---------------------------------------- find_shortest_superstring
\* the mutant trims one character too many
ss_append_overtrimmed(current_string, curr, overlap) ==
  current_string \o DropFirst(fragments[curr], overlap + 1)

\* current_string += self.fragments[curr][overlap:]
ss_append(current_string, curr, overlap) ==
  current_string \o DropFirst(fragments[curr], overlap)

\* the loop "for i in range(1, self.n)": st = [current_string, total_overlap]
RECURSIVE ss_merge(_, _, _)
ss_merge(perm, i, st) ==
  IF i > n THEN st
  ELSE LET overlap == overlap_matrix[perm[i - 1]][perm[i]]
       IN ss_merge(perm, i + 1,
            [current_string |-> ss_append(st.current_string, perm[i], overlap),
             total_overlap  |-> st.total_overlap + overlap])

\* if total_overlap > max_overlap
ss_improves(total_overlap, max_overlap) == total_overlap > max_overlap

\* one iteration of the permutation loop; perm[0] of an empty perm raises
\* IndexError and ends the call.
\* acc.perm is the perm of the iteration that last assigned best_superstring.
ss_iteration(acc, perm) ==
  IF acc.raised THEN acc
  ELSE IF Len(perm) = 0 THEN [acc EXCEPT !.raised = TRUE]
  ELSE LET st == ss_merge(perm, 2, [current_string |-> fragments[perm[1]],
                                    total_overlap |-> 0])
       IN IF ss_improves(st.total_overlap, acc.max_overlap)
          THEN [acc EXCEPT !.max_overlap = st.total_overlap,
                           !.best_superstring = st.current_string,
                           !.perm = perm]
          ELSE acc

RECURSIVE ss_search(_, _, _)
ss_search(perms, k, acc) ==
  IF k > Len(perms) THEN acc
  ELSE ss_search(perms, k + 1, ss_iteration(acc, perms[k]))

FindShortestSuperstring ==
  LET r == ss_search(permutations(range_n), 1,
                     [best_superstring |-> None, max_overlap |-> -1,
                      perm |-> NoList, raised |-> FALSE])
  IN /\ IF r.raised
        THEN /\ ss_status' = "IndexError"
             /\ ss_result' = None
             /\ ss_perm' = NoList
        ELSE /\ ss_status' = "returned"
             /\ ss_result' = r.best_superstring
             /\ ss_perm' = r.perm
     /\ UNCHANGED <<fragments, n, overlap_matrix, graph_status, graph_result,
                    hp_status, hp_result, hp_perm>>

\* ------------------------------------------------------------ Spec
Next == Graph \/ HamiltonianPath \/ FindShortestSuperstring

Spec == Init /\ [][Next]_vars

\* ============================================================ properties
\* ---- vocabulary of the properties, defined apart from the operations
Indices == 1..n

\* the orderings: every fragment index used exactly once
Orderings == {p \in [Indices -> Indices] : \A i, j \in Indices : i # j => p[i] # p[j]}

\* the score of an ordering: sum of the matrix entries between neighbours
RECURSIVE ScoreUpTo(_, _)
ScoreUpTo(p, k) ==
  IF k < 2 THEN 0 ELSE ScoreUpTo(p, k - 1) + overlap_matrix[p[k - 1]][p[k]]

Score(p) == ScoreUpTo(p, Len(p))

IsOrdering(p) == DOMAIN p = Indices /\ p \in Orderings

LexLess(p, q) ==
  \E k \in 1..Min(Len(p), Len(q)) :
     /\ \A m \in 1..(k - 1) : p[m] = q[m]
     /\ p[k] < q[k]

\* the length-k suffix of a equals the length-k prefix of b
Matches(a, b, k) == \A t \in 1..k : a[Len(a) - k + t] = b[t]

MatchLengths(a, b) == {k \in 1..Min(Len(a), Len(b)) : Matches(a, b, k)}

LongestMatch(a, b) ==
  IF MatchLengths(a, b) = {} THEN 0
  ELSE CHOOSE m \in MatchLengths(a, b) : \A k \in MatchLengths(a, b) : k <= m

\* f occurs in s as a contiguous substring
Contains(s, f) ==
  \E k \in 0..(Len(s) - Len(f)) : \A t \in 1..Len(f) : s[k + t] = f[t]

RECURSIVE TotalLen(_)
TotalLen(frags) == IF Len(frags) = 0 THEN 0 ELSE Len(Head(frags)) + TotalLen(Tail(frags))

\* the fragments met by following a successor mapping from its first key
RECURSIVE Follow(_, _, _)
Follow(d, key, fuel) ==
  IF key = None \/ fuel = 0 \/ key \notin DictKeys(d) THEN <<>>
  ELSE <<key>> \o Follow(d, d.val[key], fuel - 1)

Walk(d) == IF Len(d.keys) = 0 THEN <<>> ELSE Follow(d, d.keys[1], n)

ContentsOf(p) == [i \in 1..Len(p) |-> fragments[p[i]]]

HpCalled == hp_status # "idle"
SsCalled == ss_status # "idle"

\* C1: for n >= 1 the ordering selected by hamiltonian_path and the one
\* selected by find_shortest_superstring each have a total overlap greater
\* than or equal to that of every permutation of the fragment indices.
Thm_C1_GlobalOptimum ==
  /\ (n >= 1 /\ HpCalled) =>
        /\ hp_status = "returned"
        /\ IsOrdering(hp_perm)
        /\ \A p \in Orderings : Score(hp_perm) >= Score(p)
  /\ (n >= 1 /\ SsCalled) =>
        /\ ss_status = "returned"
        /\ IsOrdering(ss_perm)
        /\ \A p \in Orderings : Score(ss_perm) >= Score(p)

\* both searches have run where the orderings differ in score and the first
\* one enumerated is not the best
Wit_C1_GlobalOptimum ==
  /\ n >= 2 /\ hp_status = "returned" /\ ss_status = "returned"
  /\ \E p \in Orderings : Score(p) < Score(hp_perm)
  /\ \E p \in Orderings : Score(p) < Score(ss_perm)
  /\ hp_perm # range_n

\* C2: for n >= 1, duplicates included, the successor mapping returned by
\* hamiltonian_path has one entry per fragment index, exactly n - 1 entries
\* with a successor and exactly one entry mapped to None.
CE_C2_PathVisitsEveryIndex ==
  (n >= 1 /\ HpCalled) =>
     /\ hp_status = "returned"
     /\ Cardinality(DictKeys(hp_result)) = n
     /\ Cardinality({k \in DictKeys(hp_result) : hp_result.val[k] # None}) = n - 1
     /\ Cardinality({k \in DictKeys(hp_result) : hp_result.val[k] = None}) = 1

\* C3: for n = 0 neither hamiltonian_path nor find_shortest_superstring
\* ends in an out-of-range index access.
CE_C3_EmptyInputDefined ==
  n = 0 => (hp_status # "IndexError" /\ ss_status # "IndexError")

\* C4: for n >= 1 the string returned by find_shortest_superstring contains
\* every input fragment as a contiguous substring.
Thm_C4_SuperstringContainsAll ==
  (n >= 1 /\ SsCalled) =>
     /\ ss_status = "returned"
     /\ \A i \in Indices : Contains(ss_result, fragments[i])

\* fragments of distinct content merged with some overlap elided
Wit_C4_SuperstringContainsAll ==
  /\ n >= 2 /\ ss_status = "returned"
  /\ \A i, j \in Indices : i # j => fragments[i] # fragments[j]
  /\ \A i \in Indices : Len(fragments[i]) >= 2
  /\ Len(ss_result) < TotalLen(fragments)

\* C5: for n >= 1 no string strictly shorter than the one returned by
\* find_shortest_superstring contains every input fragment.
CE_C5_ShortestSuperstring ==
  (n >= 1 /\ ss_status = "returned") =>
     ~ \E len \in 0..(Len(ss_result) - 1) : \E t \in [1..len -> Alphabet] :
          \A i \in Indices : Contains(t, fragments[i])

\* C6: _calculate_overlap(a, b) is the greatest i in 1..min(len(a), len(b))
\* whose length-i suffix of a equals the length-i prefix of b, or 0 when
\* there is none; so it lies in 0..min(len(a), len(b)) and two strings of
\* identical content overlap by their full length.
Thm_C6_OverlapIsLongestMatch ==
  \A i, j \in Indices :
     LET a == fragments[i]
         b == fragments[j]
     IN /\ _calculate_overlap(a, b) = LongestMatch(a, b)
        /\ _calculate_overlap(a, b) >= 0
        /\ _calculate_overlap(a, b) <= Min(Len(a), Len(b))
        /\ a = b => _calculate_overlap(a, b) = Len(a)

\* a pair whose shortest match is not its longest, and a pair of identical
\* content at different indices, both in the matrix
Wit_C6_OverlapIsLongestMatch ==
  /\ \E i, j \in Indices :
        /\ i # j
        /\ Cardinality(MatchLengths(fragments[i], fragments[j])) >= 2
        /\ overlap_matrix[i][j] = LongestMatch(fragments[i], fragments[j])
  /\ \E i, j \in Indices :
        /\ i # j /\ fragments[i] = fragments[j] /\ Len(fragments[i]) >= 2
        /\ overlap_matrix[i][j] = Len(fragments[i])

GraphHasEdge(i, j) ==
  /\ fragments[i] \in DictKeys(graph_result)
  /\ fragments[j] \in DictKeys(graph_result.val[fragments[i]])

\* C7: the mapping returned by graph() has one node per fragment index and
\* an edge from fragment i to fragment j of weight w exactly when
\* overlap_matrix[i][j] = w > 0.
CE_C7_GraphReflectsMatrix ==
  graph_status = "returned" =>
     /\ Cardinality(DictKeys(graph_result)) = n
     /\ \A i, j \in Indices :
           /\ GraphHasEdge(i, j) <=> overlap_matrix[i][j] > 0
           /\ GraphHasEdge(i, j) =>
                graph_result.val[fragments[i]].val[fragments[j]] = overlap_matrix[i][j]

MatrixMatchesFragments ==
  /\ n = Len(fragments)
  /\ DOMAIN overlap_matrix = Indices
  /\ \A i \in Indices :
        /\ DOMAIN overlap_matrix[i] = Indices
        /\ overlap_matrix[i][i] = 0
        /\ \A j \in Indices :
              i # j => overlap_matrix[i][j] = LongestMatch(fragments[i], fragments[j])

\* C8: overlap_matrix is an n x n table with a zero diagonal and the overlap
\* of fragments i and j at (i, j), i # j, and no call of graph,
\* hamiltonian_path or find_shortest_superstring changes the matrix or the
\* fragment list.
Thm_C8_MatrixBuiltOnce ==
  /\ [] MatrixMatchesFragments
  /\ [][fragments' = fragments /\ overlap_matrix' = overlap_matrix /\ n' = n]_vars

\* all three operations have run over a matrix with a non-zero entry
Wit_C8_MatrixBuiltOnce ==
  /\ n >= 2
  /\ graph_status = "returned" /\ hp_status = "returned" /\ ss_status = "returned"
  /\ \E i, j \in Indices : overlap_matrix[i][j] > 0
  /\ \E i \in Indices : Len(fragments[i]) > 0

EnumeratedInLexOrder ==
  LET perms == permutations(range_n)
  IN /\ \A k \in 1..(Len(perms) - 1) : LexLess(perms[k], perms[k + 1])
     /\ {perms[k] : k \in 1..Len(perms)} = Orderings

FirstAmongBest(perm) ==
  /\ IsOrdering(perm)
  /\ \A p \in Orderings :
        /\ Score(p) <= Score(perm)
        /\ (Score(p) = Score(perm) /\ p # perm) => LexLess(perm, p)

\* C9: both searches enumerate the permutations in lexicographic order and
\* select the lexicographically first permutation among those of maximum
\* total overlap.
Thm_C9_FirstFoundWins ==
  /\ EnumeratedInLexOrder
  /\ (n >= 1 /\ HpCalled) => FirstAmongBest(hp_perm)
  /\ (n >= 1 /\ SsCalled) => FirstAmongBest(ss_perm)

\* both searches have run where several orderings tie for the maximum
Wit_C9_FirstFoundWins ==
  /\ n >= 2 /\ hp_status = "returned" /\ ss_status = "returned"
  /\ \E p \in Orderings : p # hp_perm /\ Score(p) = Score(hp_perm)
  /\ \E p \in Orderings : p # ss_perm /\ Score(p) = Score(ss_perm)
  /\ Score(hp_perm) > 0

\* C10: for n >= 1 the ordering read off the successor mapping returned by
\* hamiltonian_path, from its start fragment to None, is the ordering whose
\* overlap-trimmed concatenation find_shortest_superstring returns.
CE_C10_SearchesAgree ==
  (n >= 1 /\ hp_status = "returned" /\ ss_status = "returned") =>
     Walk(hp_result) = ContentsOf(ss_perm)

====
